---- MODULE Spec2Model ----
(***************************************************************************)
(* A model of the semver crate (semver/src/lib.rs): the grammar pattern RE, *)
(* parse, equality and partial order of Semver values, print, and the     *)
(* command-line program (semver-cli/src/main.rs).                          *)
(*                                                                         *)
(* Text is a sequence of characters, each character a one-element string   *)
(* token.  The token "U+0662" stands for the single character ARABIC-INDIC *)
(* DIGIT TWO, a decimal digit (general category Nd) outside ASCII.         *)
(*                                                                         *)
(* A u128 value is held as its base-10 digit sequence, most significant    *)
(* digit first and without leading zeros (zero is <<0>>): 2^128 is beyond  *)
(* the integers TLC computes with, and the width is kept exactly.          *)
(*                                                                         *)
(* Option<T> is a sequence of length 0 (None) or 1 (Some).                 *)
(***************************************************************************)
EXTENDS Integers, Sequences, FiniteSets, TLC

VARIABLES version, shape, parsed, ord, same, rev, comparable, opts, out, exit

vars ==
  <<version, shape, parsed, ord, same, rev, comparable, opts, out, exit>>

\* ---------------------------------------------------------------- bounds

\* Identifiers per '-' or '+' section of the assembled parser inputs.
MaxIdents == 2

\* How many digits past the longest u128 literal the core literals go.
MaxOver == 1

\* ------------------------------------------------------------ characters

AsciiDigits == <<"0", "1", "2", "3", "4", "5", "6", "7", "8", "9">>

Upper ==
  <<"A", "B", "C", "D", "E", "F", "G", "H", "I", "J", "K", "L", "M",
    "N", "O", "P", "Q", "R", "S", "T", "U", "V", "W", "X", "Y", "Z">>

Lower ==
  <<"a", "b", "c", "d", "e", "f", "g", "h", "i", "j", "k", "l", "m",
    "n", "o", "p", "q", "r", "s", "t", "u", "v", "w", "x", "y", "z">>

\* The characters of the model in code point order (the order of their
\* UTF-8 encodings, which is the order str comparison uses).
CharOrder ==
  <<" ", "+", "-", ".">> \o AsciiDigits \o Upper \o <<"_">> \o Lower
    \o <<"U+0662">>

Range(f) == {f[i] : i \in DOMAIN f}

CodeOf(c) == CHOOSE i \in DOMAIN CharOrder : CharOrder[i] = c

\* [0-9]
IsAsciiDigit(c) == c \in Range(AsciiDigits)

\* \d of a pattern compiled in the regex crate's default Unicode mode:
\* any decimal digit (\p{Nd}), ASCII or not.
IsDigit(c) == IsAsciiDigit(c) \/ c = "U+0662"

\* [1-9]
IsNonZeroDigit(c) == IsAsciiDigit(c) /\ c # "0"

\* [a-zA-Z-]
IsLetterOrHyphen(c) == c \in Range(Upper) \cup Range(Lower) \cup {"-"}

\* [0-9a-zA-Z-]
IsIdentChar(c) == IsAsciiDigit(c) \/ IsLetterOrHyphen(c)

SubText(s, from, to) == [k \in 1..(to - from + 1) |-> s[from + k - 1]]

\* ------------------------------------------------------ the pattern RE

\* 0|[1-9]\d*  matched against the whole of t.
MatchNum(t) ==
  \/ t = <<"0">>
  \/ /\ Len(t) >= 1
     /\ IsNonZeroDigit(t[1])
     /\ \A k \in 2..Len(t) : IsDigit(t[k])

\* \d*[a-zA-Z-][0-9a-zA-Z-]*  matched against the whole of t.
MatchAlnum(t) ==
  \E k \in 1..Len(t) :
    /\ \A j \in 1..(k - 1) : IsDigit(t[j])
    /\ IsLetterOrHyphen(t[k])
    /\ \A j \in (k + 1)..Len(t) : IsIdentChar(t[j])

\* One prerelease identifier: (?:0|[1-9]\d*|\d*[a-zA-Z-][0-9a-zA-Z-]*)
MatchPreIdent(t) == MatchNum(t) \/ MatchAlnum(t)

\* One build metadata identifier: [0-9a-zA-Z-]+
MatchBuildIdent(t) == Len(t) >= 1 /\ \A k \in 1..Len(t) : IsIdentChar(t[k])

Min(S) == CHOOSE x \in S : \A y \in S : x <= y

\* The first position from i on whose character satisfies none of \d
\* (Len(s) + 1 when there is none): where a greedy \d* started at i ends.
EndOfDigits(s, i) ==
  Min({j \in i..Len(s) : ~IsDigit(s[j])} \cup {IF i > Len(s) THEN i ELSE Len(s) + 1})

\* The first position from i on that holds character c (Len(s) + 1 when
\* there is none).
FirstOf(s, i, c) ==
  Min({j \in i..Len(s) : s[j] = c} \cup {IF i > Len(s) THEN i ELSE Len(s) + 1})

\* t cut at its '.' characters.
RECURSIVE SplitDots(_)
SplitDots(t) ==
  LET d == FirstOf(t, 1, ".")
  IN  IF d > Len(t)
        THEN <<t>>
        ELSE <<SubText(t, 1, d - 1)>> \o SplitDots(SubText(t, d + 1, Len(t)))

\* ident(?:\.ident)*  matched against the whole of t.
MatchPrerelease(t) ==
  LET ids == SplitDots(t) IN \A k \in DOMAIN ids : MatchPreIdent(ids[k])

MatchBuildmetadata(t) ==
  LET ids == SplitDots(t) IN \A k \in DOMAIN ids : MatchBuildIdent(ids[k])

NoCaptures ==
  [matched |-> FALSE, major |-> <<>>, minor |-> <<>>, patch |-> <<>>,
   prerelease |-> <<>>, buildmetadata |-> <<>>]

\* The optional sections after the patch literal, from position q on:
\* (?:-(?P<prerelease>...))?(?:\+(?P<buildmetadata>...))?$
\* No character of a prerelease is '+', so a '-' section runs to the first
\* '+' or to the end; the '+' section runs to the end.
TailCaptures(s, q) ==
  LET plus  == FirstOf(s, q, "+")
      pre   == IF q <= Len(s) /\ s[q] = "-"
                 THEN <<SubText(s, q + 1, plus - 1)>> ELSE <<>>
      build == IF plus <= Len(s)
                 THEN <<SubText(s, plus + 1, Len(s))>> ELSE <<>>
      \* without a '-' section the '+' must follow the patch at once
      placed == pre # <<>> \/ plus = q \/ q = Len(s) + 1
  IN  [matched |-> /\ placed
                   /\ pre # <<>> => MatchPrerelease(pre[1])
                   /\ build # <<>> => MatchBuildmetadata(build[1]),
       prerelease |-> pre, buildmetadata |-> build]

\* AfterV with the 'v' never taken: a pattern without its v? prefix.
AfterV_NoPrefix(s) == 1

\* ^v?  The position after the optional 'v'.  A literal cannot start with
\* 'v', so a leading 'v' is always the one the pattern takes.
AfterV(s) == IF Len(s) >= 1 /\ s[1] = "v" THEN 2 ELSE 1

\* RE.captures(s): the pattern is anchored at both ends, and every token
\* that follows a numeric literal starts with a character that is no digit,
\* so each literal is the whole run of digits and the match is unique.
RE(s) ==
  LET p1 == AfterV(s)
      e1 == EndOfDigits(s, p1)
      e2 == EndOfDigits(s, e1 + 1)
      e3 == EndOfDigits(s, e2 + 1)
      major == SubText(s, p1, e1 - 1)
      minor == SubText(s, e1 + 1, e2 - 1)
      patch == SubText(s, e2 + 1, e3 - 1)
  IN  IF /\ e1 <= Len(s) /\ s[e1] = "."
         /\ e2 <= Len(s) /\ s[e2] = "."
         /\ MatchNum(major) /\ MatchNum(minor) /\ MatchNum(patch)
         /\ TailCaptures(s, e3).matched
        THEN [matched |-> TRUE, major |-> major, minor |-> minor,
              patch |-> patch,
              prerelease |-> TailCaptures(s, e3).prerelease,
              buildmetadata |-> TailCaptures(s, e3).buildmetadata]
        ELSE NoCaptures

\* ------------------------------------------------------------- u128

\* u128::MAX = 2^128 - 1 = 340282366920938463463374607431768211455
U128_MAX ==
  <<3, 4, 0, 2, 8, 2, 3, 6, 6, 9, 2, 0, 9, 3, 8, 4, 6, 3, 4, 6,
    3, 3, 7, 4, 6, 0, 7, 4, 3, 1, 7, 6, 8, 2, 1, 1, 4, 5, 5>>

\* Lexicographic comparison of two sequences of integers: "Less", "Equal"
\* or "Greater"; a proper prefix is Less.
LexCmp(x, y) ==
  LET n    == IF Len(x) < Len(y) THEN Len(x) ELSE Len(y)
      diff == {k \in 1..n : x[k] # y[k]}
  IN  IF diff # {}
        THEN (IF x[Min(diff)] < y[Min(diff)] THEN "Less" ELSE "Greater")
      ELSE IF Len(x) < Len(y) THEN "Less"
      ELSE IF Len(x) > Len(y) THEN "Greater"
      ELSE "Equal"

\* u128 ordering: of two values without leading zeros the longer is the
\* greater, and values of one length are ordered digit by digit.
CmpU128(x, y) ==
  IF Len(x) < Len(y) THEN "Less"
  ELSE IF Len(x) > Len(y) THEN "Greater"
  ELSE LexCmp(x, y)

DigitVal(c) == (CHOOSE i \in DOMAIN AsciiDigits : AsciiDigits[i] = c) - 1

\* The value the digit loop of str::parse::<u128>() holds after the first
\* k characters of t (result = result * 10 + digit, from 0): the digits
\* read so far, leading zeros dropped.
Accumulated(t, k) ==
  LET nz == {j \in 1..k : t[j] # "0"}
  IN  IF nz = {} THEN <<0>>
      ELSE [j \in 1..(k - Min(nz) + 1) |-> DigitVal(t[Min(nz) + j - 1])]

\* The digit loop of str::parse::<u128>() over t: it stops at the first
\* character that is no ASCII digit (InvalidDigit) or at the first digit
\* whose checked multiply-and-add leaves u128 (PosOverflow), whichever
\* comes first.
ParseDigits(t) ==
  LET bad  == Min({k \in 1..Len(t) : ~IsAsciiDigit(t[k])} \cup {Len(t) + 1})
      over == {k \in 1..(bad - 1) :
                 CmpU128(Accumulated(t, k), U128_MAX) = "Greater"}
  IN  IF over # {} THEN [ok |-> FALSE, val |-> <<>>, kind |-> "PosOverflow"]
      ELSE IF bad <= Len(t)
        THEN [ok |-> FALSE, val |-> <<>>, kind |-> "InvalidDigit"]
      ELSE [ok |-> TRUE, val |-> Accumulated(t, Len(t)), kind |-> "none"]

\* caps["major"].parse::<u128>()
from_str_u128(t) ==
  IF t = <<>> THEN [ok |-> FALSE, val |-> <<>>, kind |-> "Empty"]
  ELSE IF t = <<"+">> THEN [ok |-> FALSE, val |-> <<>>, kind |-> "InvalidDigit"]
  ELSE IF t[1] = "+" THEN ParseDigits(Tail(t))
  ELSE ParseDigits(t)

\* ------------------------------------------------------------- parse

Semver(major, minor, patch, prerelease, buildmetadata) ==
  [major |-> major, minor |-> minor, patch |-> patch,
   prerelease |-> prerelease, buildmetadata |-> buildmetadata]

Ok(v) == [ok |-> TRUE, val |-> <<v>>, err |-> <<>>]

\* An anyhow::Error: what it was made from and what it carries.
\* .context("invalid semver") on a None makes an error that carries the
\* context text alone; the ? on a ParseIntError wraps that error.
Err(kind, carries) ==
  [ok |-> FALSE, val |-> <<>>, err |-> <<[kind |-> kind, carries |-> carries]>>]

InvalidSemverText ==
  <<"i", "n", "v", "a", "l", "i", "d", " ", "s", "e", "m", "v", "e", "r">>

\* parse with minor read from the patch capture and patch from the minor.
parse_SwappedCaptures(s) ==
  LET caps  == RE(s)
      major == from_str_u128(caps.major)
      minor == from_str_u128(caps.patch)
      patch == from_str_u128(caps.minor)
  IN  IF ~caps.matched THEN Err("context", InvalidSemverText)
      ELSE IF ~major.ok THEN Err("ParseIntError", <<major.kind>>)
      ELSE IF ~minor.ok THEN Err("ParseIntError", <<minor.kind>>)
      ELSE IF ~patch.ok THEN Err("ParseIntError", <<patch.kind>>)
      ELSE Ok(Semver(major.val, minor.val, patch.val,
                     caps.prerelease, caps.buildmetadata))

parse(s) ==
  LET caps  == RE(s)
      major == from_str_u128(caps.major)
      minor == from_str_u128(caps.minor)
      patch == from_str_u128(caps.patch)
  IN  IF ~caps.matched THEN Err("context", InvalidSemverText)
      ELSE IF ~major.ok THEN Err("ParseIntError", <<major.kind>>)
      ELSE IF ~minor.ok THEN Err("ParseIntError", <<minor.kind>>)
      ELSE IF ~patch.ok THEN Err("ParseIntError", <<patch.kind>>)
      ELSE Ok(Semver(major.val, minor.val, patch.val,
                     caps.prerelease, caps.buildmetadata))

\* ------------------------------------------- equality and ordering

\* Option<&str> == Option<&str>
OptionStrEq(x, y) ==
  IF x = <<>> \/ y = <<>> THEN x = <<>> /\ y = <<>>
  ELSE /\ Len(x[1]) = Len(y[1])
       /\ \A k \in 1..Len(x[1]) : x[1][k] = y[1][k]

\* eq with the build metadata left out, as in semver's own precedence.
eq_IgnoringBuild(a, b) ==
  /\ CmpU128(a.major, b.major) = "Equal"
  /\ CmpU128(a.minor, b.minor) = "Equal"
  /\ CmpU128(a.patch, b.patch) = "Equal"
  /\ OptionStrEq(a.prerelease, b.prerelease)

\* impl PartialEq for Semver
eq(a, b) ==
  /\ CmpU128(a.major, b.major) = "Equal"
  /\ CmpU128(a.minor, b.minor) = "Equal"
  /\ CmpU128(a.patch, b.patch) = "Equal"
  /\ OptionStrEq(a.prerelease, b.prerelease)
  /\ OptionStrEq(a.buildmetadata, b.buildmetadata)

\* TupleCmp with the tuple written in the reverse order.
TupleCmp_PatchFirst(a, b) ==
  IF CmpU128(a.patch, b.patch) # "Equal" THEN CmpU128(a.patch, b.patch)
  ELSE IF CmpU128(a.minor, b.minor) # "Equal" THEN CmpU128(a.minor, b.minor)
  ELSE CmpU128(a.major, b.major)

\* (major, minor, patch).cmp(&(major, minor, patch)): the first component
\* that differs decides.
TupleCmp(a, b) ==
  IF CmpU128(a.major, b.major) # "Equal" THEN CmpU128(a.major, b.major)
  ELSE IF CmpU128(a.minor, b.minor) # "Equal" THEN CmpU128(a.minor, b.minor)
  ELSE CmpU128(a.patch, b.patch)

\* str ordering: byte by byte.
StrCmp(x, y) ==
  LexCmp([k \in DOMAIN x |-> CodeOf(x[k])], [k \in DOMAIN y |-> CodeOf(y[k])])

\* Option<String>::partial_cmp: None is less than every Some, and two Some
\* are ordered as their strings; the result is always Some.
OptionStrCmp(x, y) ==
  IF x = <<>> /\ y = <<>> THEN <<"Equal">>
  ELSE IF x = <<>> THEN <<"Less">>
  ELSE IF y = <<>> THEN <<"Greater">>
  ELSE <<StrCmp(x[1], y[1])>>

\* partial_cmp without its buildmetadata match.
partial_cmp_IgnoringBuild(a, b) ==
  IF TupleCmp(a, b) # "Equal" THEN <<TupleCmp(a, b)>>
  ELSE IF OptionStrCmp(a.prerelease, b.prerelease) # <<"Equal">> THEN <<>>
  ELSE <<"Equal">>

\* partial_cmp that returns the ordering of the prerelease fields
\* (_ord => return _ord) where the code returns None.
partial_cmp_OrderingPrerelease(a, b) ==
  IF TupleCmp(a, b) # "Equal" THEN <<TupleCmp(a, b)>>
  ELSE IF OptionStrCmp(a.prerelease, b.prerelease) # <<"Equal">>
    THEN OptionStrCmp(a.prerelease, b.prerelease)
  ELSE IF OptionStrCmp(a.buildmetadata, b.buildmetadata) = <<"Equal">>
    THEN <<"Equal">>
  ELSE <<>>

\* partial_cmp that returns Some(Less) when the prerelease of self orders
\* before that of other, and None when it orders after.
partial_cmp_LessOnPrerelease(a, b) ==
  IF TupleCmp(a, b) # "Equal" THEN <<TupleCmp(a, b)>>
  ELSE IF OptionStrCmp(a.prerelease, b.prerelease) = <<"Less">>
    THEN <<"Less">>
  ELSE IF OptionStrCmp(a.prerelease, b.prerelease) # <<"Equal">> THEN <<>>
  ELSE IF OptionStrCmp(a.buildmetadata, b.buildmetadata) = <<"Equal">>
    THEN <<"Equal">>
  ELSE <<>>

\* impl PartialOrd for Semver
partial_cmp(a, b) ==
  IF TupleCmp(a, b) # "Equal" THEN <<TupleCmp(a, b)>>
  ELSE IF OptionStrCmp(a.prerelease, b.prerelease) # <<"Equal">> THEN <<>>
  ELSE IF OptionStrCmp(a.buildmetadata, b.buildmetadata) = <<"Equal">>
    THEN <<"Equal">>
  ELSE <<>>

\* is_comparable_with that holds only when self does not order after other.
is_comparable_with_NotGreater(a, b) ==
  partial_cmp(a, b) \in {<<"Less">>, <<"Equal">>}

\* Check if it is comparable with another Semver.
is_comparable_with(a, b) == partial_cmp(a, b) # <<>>

\* ------------------------------------------------------------- print

\* The literal of a u128 value, as {} prints it.
Digits(v) == [k \in DOMAIN v |-> AsciiDigits[v[k] + 1]]

\* The line feed println! ends its text with.
LF == "LF"

DisplayOptions(prefix, remove_v_prefix, single_line) ==
  [prefix |-> prefix, remove_v_prefix |-> remove_v_prefix,
   single_line |-> single_line]

\* "{}{}"
Fmt1(prefix, v) == prefix \o Digits(v.major)

\* "{}{}.{}"
Fmt2(prefix, v) == Fmt1(prefix, v) \o <<".">> \o Digits(v.minor)

\* "{}{}.{}.{}"
Fmt3(prefix, v) == Fmt2(prefix, v) \o <<".">> \o Digits(v.patch)

\* "{}{}.{}.{}-{}"
\* FmtPre that writes the build metadata after the prerelease.
FmtPre_WithBuild(prefix, v) ==
  Fmt3(prefix, v) \o <<"-">> \o v.prerelease[1]
    \o (IF v.buildmetadata = <<>> THEN <<>> ELSE <<"+">> \o v.buildmetadata[1])

FmtPre(prefix, v) == Fmt3(prefix, v) \o <<"-">> \o v.prerelease[1]

\* Print versions on a single line: what it writes to the standard output.
\* print_single_line that writes the full version only.
print_single_line_FullOnly(v, prefix) ==
  IF v.prerelease # <<>> THEN FmtPre(prefix, v) \o <<LF>>
  ELSE Fmt3(prefix, v) \o <<LF>>

print_single_line(v, prefix) ==
  IF v.prerelease # <<>>
    THEN FmtPre(prefix, v) \o <<LF>>
    ELSE Fmt1(prefix, v) \o <<",">> \o Fmt2(prefix, v) \o <<",">>
           \o Fmt3(prefix, v) \o <<LF>>

\* Print versions on multiple lines: what it writes to the standard output.
print_multiple_lines(v, prefix) ==
  IF v.prerelease # <<>>
    THEN FmtPre(prefix, v) \o <<LF>>
    ELSE Fmt1(prefix, v) \o <<LF>> \o Fmt2(prefix, v) \o <<LF>>
           \o Fmt3(prefix, v) \o <<LF>>

\* prefix.push('v') unless remove_v_prefix
\* PushV with the test of remove_v_prefix inverted.
PushV_Inverted(o) == IF o.remove_v_prefix THEN o.prefix \o <<"v">> ELSE o.prefix

PushV(o) == IF ~o.remove_v_prefix THEN o.prefix \o <<"v">> ELSE o.prefix

\* Print all requested versions: what it writes to the standard output.
print(v, o) ==
  IF o.single_line
    THEN print_single_line(v, PushV(o))
    ELSE print_multiple_lines(v, PushV(o))

\* The exit status of a process whose main returns r: 0 for Ok(()), 1 for
\* an Err, which the runtime reports on the standard error.
ExitStatus_AlwaysZero(r) == IF r.ok THEN 0 ELSE 0

ExitStatus(r) == IF r.ok THEN 0 ELSE 1

\* ------------------------------------------------------ the inputs

RECURSIVE Zeros(_)
Zeros(n) == IF n = 0 THEN <<>> ELSE <<0>> \o Zeros(n - 1)

\* A piece of an assembled input: its text, whether the grammar allows it
\* where it stands, and (a core literal) the number it denotes.
Piece(txt, ok, val) == [txt |-> txt, ok |-> ok, val |-> val]

\* 2^64, the first value past the 64-bit range.
TwoTo64 == <<1, 8, 4, 4, 6, 7, 4, 4, 0, 7, 3, 7, 0, 9, 5, 5, 1, 6, 1, 6>>

\* 2^128, the first value past the 128-bit range.
TwoTo128 == SubSeq(U128_MAX, 1, Len(U128_MAX) - 1) \o <<6>>

Number(v) == Piece(Digits(v), TRUE, v)

\* Core literals: in range, at the edge of u128, and past it by up to
\* MaxOver digits.
CoreNumbers ==
  {Number(<<0>>), Number(<<1>>), Number(<<9>>), Number(<<1, 0>>),
   Number(TwoTo64), Number(U128_MAX), Number(TwoTo128)}
    \cup {Number(U128_MAX \o Zeros(k)) : k \in 1..MaxOver}

\* Core literals the grammar rejects: a leading zero, nothing, a letter,
\* a digit outside ASCII.
CoreBad ==
  {Piece(<<"0", "1">>, FALSE, <<>>), Piece(<<>>, FALSE, <<>>),
   Piece(<<"a">>, FALSE, <<>>), Piece(<<"1", "U+0662">>, FALSE, <<>>)}

CoreLits == CoreNumbers \cup CoreBad

\* Prerelease identifiers.
PreIdents ==
  {Piece(<<"a">>, TRUE, <<>>), Piece(<<"0">>, TRUE, <<>>),
   Piece(<<"1", "0">>, TRUE, <<>>), Piece(<<"0", "a">>, TRUE, <<>>),
   Piece(<<"-">>, TRUE, <<>>),
   Piece(<<"0", "1">>, FALSE, <<>>), Piece(<<>>, FALSE, <<>>),
   Piece(<<"a", "_">>, FALSE, <<>>),
   Piece(<<"U+0662", "a">>, FALSE, <<>>),
   Piece(<<"1", "U+0662">>, FALSE, <<>>)}

\* Build metadata identifiers.
BuildIdents ==
  {Piece(<<"x">>, TRUE, <<>>), Piece(<<"0", "1">>, TRUE, <<>>),
   Piece(<<>>, FALSE, <<>>), Piece(<<"x", "+", "y">>, FALSE, <<>>),
   Piece(<<"U+0662">>, FALSE, <<>>)}

\* The sequences of 1..n members of S.
SeqsUpTo(S, n) == UNION {[1..k -> S] : k \in 1..n}

\* An optional section: absent, or 1..MaxIdents identifiers.
Sections(S) == {<<>>} \cup {<<ids>> : ids \in SeqsUpTo(S, MaxIdents)}

Leads == {<<>>, <<"v">>, <<"v", "v">>, <<"V">>, <<" ">>, <<"-">>}

Trails == {<<>>, <<" ">>}

Shape(kind, lead, core, pre, build, trail, raw) ==
  [kind |-> kind, lead |-> lead, core |-> core, pre |-> pre,
   build |-> build, trail |-> trail, raw |-> raw]

Assembled(lead, core, pre, build, trail) ==
  Shape("assembled", lead, core, pre, build, trail, <<>>)

One == Number(<<1>>)

A == Piece(<<"a">>, TRUE, <<>>)

X == Piece(<<"x">>, TRUE, <<>>)

\* Every combination of core literals, bare and with both sections.
CoreInputs ==
  {Assembled(lead, <<ma, mi, pa>>, tail[1], tail[2], <<>>) :
     lead \in {<<>>, <<"v">>}, ma \in CoreLits, mi \in CoreLits,
     pa \in CoreLits, tail \in {<< <<>>, <<>> >>, << <<<<A>>>>, <<<<X>>>> >>}}

\* Every '-' section, without and with a '+' section after it.
PreInputs ==
  {Assembled(lead, <<One, One, One>>, pre, build, <<>>) :
     lead \in {<<>>, <<"v">>}, pre \in Sections(PreIdents),
     build \in {<<>>, <<<<X>>>>}}

\* Every '+' section, without and with a '-' section before it.
BuildInputs ==
  {Assembled(lead, <<One, One, One>>, pre, build, <<>>) :
     lead \in {<<>>, <<"v">>}, pre \in {<<>>, <<<<A>>>>},
     build \in Sections(BuildIdents)}

\* Text before and after a version.
ExtraInputs ==
  {Assembled(lead, <<One, One, One>>, pre, build, trail) :
     lead \in Leads, trail \in Trails,
     pre \in {<<>>, <<<<A>>>>}, build \in {<<>>, <<<<X>>>>}}

\* Inputs that are no assembly of three core literals: segments missing,
\* a section with no core, a fourth segment.
RawTexts ==
  {<<>>, <<"1">>, <<"1", ".", "2">>, <<"1", ".", "2", "-", "a">>,
   <<"+", "x">>, <<"-", "a">>, <<"a">>, <<"v">>,
   <<"1", ".", "2", ".", "3", ".", "4">>,
   <<"1", ".", "2", ".", "3", "-">>, <<"1", ".", "2", ".", "3", "+">>,
   <<"1", ".", "2", ".", "3", "+", "x", "-", "a", "+", "x">>}

RawInputs ==
  {Shape("raw", <<>>, <<>>, <<>>, <<>>, <<>>, t) : t \in RawTexts}

ParseInputs ==
  CoreInputs \cup PreInputs \cup BuildInputs \cup ExtraInputs \cup RawInputs

Nine == Number(<<9>>)

Ten == Number(<<1, 0>>)

\* The core triples of the versions that are compared: they differ in each
\* position, by one digit against two, and up to the edge of u128; one
\* has a leading zero and is no version.
PairCores ==
  {<<One, One, One>>, <<One, One, Nine>>, <<One, Nine, One>>,
   <<One, Ten, One>>, <<Number(U128_MAX), One, One>>,
   <<Piece(<<"0", "1">>, FALSE, <<>>), One, One>>}

PairPres == {<<>>, <<<<A>>>>, <<<<A, One>>>>}

PairBuilds == {<<>>, <<<<X>>>>, <<<<Piece(<<"y">>, TRUE, <<>>)>>>>}

\* The inputs of the runs that parse two versions.
PairInputs ==
  {Assembled(lead, core, pre, build, <<>>) :
     lead \in {<<>>, <<"v">>}, core \in PairCores,
     pre \in PairPres, build \in PairBuilds}

\* The identifiers of a section joined by '.'.
RECURSIVE Join(_)
Join(ids) ==
  IF Len(ids) = 1 THEN ids[1].txt
  ELSE ids[1].txt \o <<".">> \o Join(Tail(ids))

\* The text of an input.
TextOf(sh) ==
  IF sh.kind = "raw" THEN sh.raw
  ELSE sh.lead
         \o sh.core[1].txt \o <<".">> \o sh.core[2].txt \o <<".">>
         \o sh.core[3].txt
         \o (IF sh.pre = <<>> THEN <<>> ELSE <<"-">> \o Join(sh.pre[1]))
         \o (IF sh.build = <<>> THEN <<>> ELSE <<"+">> \o Join(sh.build[1]))
         \o sh.trail

\* ------------------------------------------------------------ actions

NotCalled == <<>>

Init ==
  /\ version = [i \in 1..2 |-> <<>>]
  /\ shape = [i \in 1..2 |-> <<>>]
  /\ parsed = [i \in 1..2 |-> NotCalled]
  /\ ord = NotCalled
  /\ same = NotCalled
  /\ rev = NotCalled
  /\ comparable = [i \in 1..2 |-> NotCalled]
  /\ opts = NotCalled
  /\ out = <<>>
  /\ exit = NotCalled

\* let v = parse(text) for the i-th version of a run.
Parse(i, sh) ==
  /\ parsed[i] = NotCalled
  /\ version' = [version EXCEPT ![i] = TextOf(sh)]
  /\ shape' = [shape EXCEPT ![i] = <<sh>>]
  /\ parsed' = [parsed EXCEPT ![i] = <<parse(TextOf(sh))>>]
  /\ UNCHANGED <<ord, same, rev, comparable, opts, out, exit>>

ParseOne == \E sh \in ParseInputs : Parse(1, sh)

NextParse == ParseOne

\* A run of the parser alone, over every input.
SpecParse == Init /\ [][NextParse]_vars

ParseFirst == \E sh \in PairInputs : Parse(1, sh)

ParseSecond == \E sh \in PairInputs : Parse(2, sh)

BothParsed ==
  /\ parsed[1] # NotCalled /\ parsed[1][1].ok
  /\ parsed[2] # NotCalled /\ parsed[2][1].ok

\* The two versions of a run, once both are parsed.
VerA == parsed[1][1].val[1]

VerB == parsed[2][1].val[1]

\* a.partial_cmp(&b)
Compare ==
  /\ BothParsed
  /\ ord = NotCalled
  /\ ord' = <<partial_cmp(VerA, VerB)>>
  /\ UNCHANGED <<version, shape, parsed, same, rev, comparable, opts, out, exit>>

\* a == b
Equal ==
  /\ BothParsed
  /\ same = NotCalled
  /\ same' = <<eq(VerA, VerB)>>
  /\ UNCHANGED <<version, shape, parsed, ord, rev, comparable, opts, out, exit>>

Next == ParseFirst \/ ParseSecond \/ Compare \/ Equal

\* A run that parses two versions and compares them.
Spec == Init /\ [][Next]_vars

\* b.partial_cmp(&a), after a.partial_cmp(&b) and a == b
CompareRev ==
  /\ BothParsed
  /\ ord # NotCalled /\ same # NotCalled
  /\ rev = NotCalled
  /\ rev' = <<partial_cmp(VerB, VerA)>>
  /\ UNCHANGED <<version, shape, parsed, ord, same, comparable, opts, out, exit>>

\* a == b, after a.partial_cmp(&b)
EqualAfterCompare == ord # NotCalled /\ Equal

\* a.is_comparable_with(&b)
IsComparableAB ==
  /\ BothParsed
  /\ rev # NotCalled
  /\ comparable[1] = NotCalled
  /\ comparable' =
       [comparable EXCEPT ![1] = <<is_comparable_with(VerA, VerB)>>]
  /\ UNCHANGED <<version, shape, parsed, ord, same, rev, opts, out, exit>>

\* b.is_comparable_with(&a)
IsComparableBA ==
  /\ BothParsed
  /\ comparable[1] # NotCalled
  /\ comparable[2] = NotCalled
  /\ comparable' =
       [comparable EXCEPT ![2] = <<is_comparable_with(VerB, VerA)>>]
  /\ UNCHANGED <<version, shape, parsed, ord, same, rev, opts, out, exit>>

NextRel ==
  \/ ParseFirst
  \/ ParseSecond
  \/ Compare
  \/ EqualAfterCompare
  \/ CompareRev
  \/ IsComparableAB
  \/ IsComparableBA

\* A run that parses two versions and relates them in both directions.
SpecRel == Init /\ [][NextRel]_vars

\* ------------------------------------------------ the command line

\* cmd::Semver, the parsed command line.
CmdSemver(remove_v_prefix, prefix, single_line, v) ==
  [remove_v_prefix |-> remove_v_prefix, prefix |-> prefix,
   single_line |-> single_line, version |-> v]

\* impl From<Semver> for DisplayOptions
FromCmd(item) ==
  DisplayOptions(item.prefix, item.remove_v_prefix, item.single_line)

\* --prefix values: the default and a custom one.
Prefixes == {<<>>, <<"r", "-">>}

Zero == Number(<<0>>)

Two == Number(<<2>>)

Alpha == Piece(<<"a", "l", "p", "h", "a">>, TRUE, <<>>)

Meta == Piece(<<"m", "e", "t", "a">>, TRUE, <<>>)

\* Versions at the edges: all zeros, a literal of 2^128, a prerelease with
\* a digit outside ASCII, sections of two identifiers; and 2.0.0 and
\* v1.2.3-alpha+meta.
EdgeInputs ==
  {Assembled(<<>>, <<Zero, Zero, Zero>>, <<>>, <<>>, <<>>),
   Assembled(<<>>, <<Two, Zero, Zero>>, <<>>, <<>>, <<>>),
   Assembled(<<"v">>, <<One, Two, Number(<<3>>)>>, <<<<Alpha>>>>, <<<<Meta>>>>, <<>>),
   Assembled(<<>>, <<Number(TwoTo128), One, One>>, <<>>, <<>>, <<>>),
   Assembled(<<>>, <<One, One, One>>,
             <<<<Piece(<<"1", "U+0662">>, FALSE, <<>>)>>>>, <<>>, <<>>),
   Assembled(<<"v">>, <<Ten, Zero, Nine>>, <<<<A, Zero>>>>, <<<<X, One>>>>, <<>>)}

\* The version arguments of the runs of the program.
CliInputs == PairInputs \cup ExtraInputs \cup RawInputs \cup EdgeInputs

\* let opts = cmd::Semver::parse();
CliArgs ==
  /\ opts = NotCalled
  /\ \E sh \in CliInputs, p \in Prefixes, r \in BOOLEAN, sl \in BOOLEAN :
       /\ opts' = <<CmdSemver(r, p, sl, TextOf(sh))>>
       /\ version' = [version EXCEPT ![1] = TextOf(sh)]
       /\ shape' = [shape EXCEPT ![1] = <<sh>>]
  /\ UNCHANGED <<parsed, ord, same, rev, comparable, out, exit>>

\* parse(&opts.version)?  An Err leaves main at once, and the process ends
\* with the status of an Err.
CliParse ==
  /\ opts # NotCalled
  /\ parsed[1] = NotCalled
  /\ parsed' = [parsed EXCEPT ![1] = <<parse(opts[1].version)>>]
  /\ exit' = IF parse(opts[1].version).ok
               THEN exit
               ELSE <<ExitStatus(parse(opts[1].version))>>
  /\ UNCHANGED <<version, shape, ord, same, rev, comparable, opts, out>>

\* .print(DisplayOptions::from(opts)); Ok(())
CliPrint ==
  /\ opts # NotCalled
  /\ parsed[1] # NotCalled /\ parsed[1][1].ok
  /\ exit = NotCalled
  /\ out' = out \o print(parsed[1][1].val[1], FromCmd(opts[1]))
  /\ exit' = <<ExitStatus([ok |-> TRUE])>>
  /\ UNCHANGED <<version, shape, parsed, ord, same, rev, comparable, opts>>

NextCli == CliArgs \/ CliParse \/ CliPrint

\* A run of the command-line program.
SpecCli == Init /\ [][NextCli]_vars

\* -------------------------------------------------------- properties

\* Whether an input matches, in full, the grammar
\*   ["v"] NUM "." NUM "." NUM ["-" PRERELEASE] ["+" BUILDMETADATA]
\* read off the way the input was assembled: nothing but an optional 'v'
\* before the core, three core literals the grammar allows, sections of
\* identifiers it allows, and nothing after them.
GrammarValid(sh) ==
  /\ sh.kind = "assembled"
  /\ sh.lead \in {<<>>, <<"v">>}
  /\ \A k \in 1..3 : sh.core[k].ok
  /\ sh.pre # <<>> => \A k \in DOMAIN sh.pre[1] : sh.pre[1][k].ok
  /\ sh.build # <<>> => \A k \in DOMAIN sh.build[1] : sh.build[1][k].ok
  /\ sh.trail = <<>>

Called(i) == parsed[i] # NotCalled

Succeeded(i) == Called(i) /\ parsed[i][1].ok

Failed(i) == Called(i) /\ ~parsed[i][1].ok

\* C1: parse succeeds on every input that matches the grammar in full,
\* however many digits its major, minor and patch literals have.
C1_ValidInputParses ==
  \A i \in 1..2 : Called(i) /\ GrammarValid(shape[i][1]) => parsed[i][1].ok

\* C2: parse returns an error, and no Version, on every input that does
\* not match the grammar in full.
C2_InvalidInputRejected ==
  \A i \in 1..2 :
    Called(i) /\ ~GrammarValid(shape[i][1])
      => ~parsed[i][1].ok /\ parsed[i][1].val = <<>>

\* C3: every failure of parse is the one error kind "invalid semver", and
\* the error carries the text that was given to parse; no Version comes
\* with it.
C3_SingleErrorKind ==
  \A i \in 1..2 :
    Failed(i)
      => /\ parsed[i][1].val = <<>>
         /\ parsed[i][1].err[1].kind = "context"
         /\ parsed[i][1].err[1].carries = version[i]

\* C4: for a text s that does not start with 'v', parse("v" + s) succeeds
\* iff parse(s) does, and the two Versions have the same five fields.
C4_LeadingVDiscarded ==
  \A i \in 1..2 : \A j \in 1..2 :
    /\ Called(i) /\ Called(j)
    /\ version[i] = <<"v">> \o version[j]
    /\ version[j] = <<>> \/ version[j][1] # "v"
    => /\ parsed[i][1].ok = parsed[j][1].ok
       /\ parsed[i][1].val = parsed[j][1].val

\* A run has parsed s and "v" + s with success, s with both sections.
C4_Witness ==
  /\ Succeeded(1) /\ Succeeded(2)
  /\ version[1] = <<"v">> \o version[2]
  /\ version[2][1] # "v"
  /\ VerB.prerelease # <<>> /\ VerB.buildmetadata # <<>>

\* C5: when parse succeeds, major, minor and patch are the values of the
\* three core literals, prerelease is present iff the input has a '-'
\* section and is then that section's text, and buildmetadata is present
\* iff the input has a '+' section and is then that section's text.
C5_FieldsAsMatched ==
  \A i \in 1..2 :
    Succeeded(i) /\ shape[i][1].kind = "assembled"
      => LET v  == parsed[i][1].val[1]
             sh == shape[i][1]
         IN  /\ v.major = sh.core[1].val
             /\ v.minor = sh.core[2].val
             /\ v.patch = sh.core[3].val
             /\ (v.prerelease # <<>>) <=> (sh.pre # <<>>)
             /\ sh.pre # <<>> => v.prerelease = <<Join(sh.pre[1])>>
             /\ (v.buildmetadata # <<>>) <=> (sh.build # <<>>)
             /\ sh.build # <<>> => v.buildmetadata = <<Join(sh.build[1])>>

\* parse has succeeded on an input with a leading 'v', u128::MAX as its
\* major literal, a '-' section and a '+' section.
C5_Witness ==
  /\ Succeeded(1)
  /\ shape[1][1].lead = <<"v">>
  /\ parsed[1][1].val[1].major = U128_MAX
  /\ shape[1][1].pre # <<>>
  /\ parsed[1][1].val[1].prerelease = <<<<"a">>>>
  /\ parsed[1][1].val[1].buildmetadata = <<<<"x">>>>

\* The data-model invariant of an optional section: '.'-separated,
\* non-empty identifiers over [0-9A-Za-z-]; in a prerelease no identifier
\* of digits alone has a leading zero, unless it is "0".
WellFormedSection(sec, isPre) ==
  sec # <<>> =>
    LET ids == SplitDots(sec[1])
    IN  \A k \in DOMAIN ids :
          /\ Len(ids[k]) >= 1
          /\ \A c \in Range(ids[k]) : IsIdentChar(c)
          /\ (isPre /\ Len(ids[k]) >= 2
                /\ \A c \in Range(ids[k]) : IsAsciiDigit(c))
               => ids[k][1] # "0"

\* C6: every Version parse returns has well-formed prerelease and
\* buildmetadata fields.
C6_VersionWellFormed ==
  \A i \in 1..2 :
    Succeeded(i)
      => /\ WellFormedSection(parsed[i][1].val[1].prerelease, TRUE)
         /\ WellFormedSection(parsed[i][1].val[1].buildmetadata, FALSE)

\* C7: a == b iff major, minor, patch, prerelease and buildmetadata are
\* all equal; two versions that differ in build metadata alone are not
\* equal.
C7_EqualityAllFields ==
  same # NotCalled =>
    /\ same[1] = (/\ VerA.major = VerB.major
                  /\ VerA.minor = VerB.minor
                  /\ VerA.patch = VerB.patch
                  /\ VerA.prerelease = VerB.prerelease
                  /\ VerA.buildmetadata = VerB.buildmetadata)
    /\ ([VerA EXCEPT !.buildmetadata = <<>>]
           = [VerB EXCEPT !.buildmetadata = <<>>]
         /\ VerA.buildmetadata # VerB.buildmetadata) => same[1] = FALSE

\* == was called on two versions that differ in build metadata alone.
C7_Witness ==
  /\ same = <<FALSE>>
  /\ [VerA EXCEPT !.buildmetadata = <<>>] = [VerB EXCEPT !.buildmetadata = <<>>]
  /\ VerA.buildmetadata # <<>> /\ VerB.buildmetadata # <<>>

\* x < y as unsigned integers.
NumLess(x, y) ==
  \/ Len(x) < Len(y)
  \/ /\ Len(x) = Len(y)
     /\ \E k \in 1..Len(x) : x[k] < y[k] /\ \A j \in 1..(k - 1) : x[j] = y[j]

NumOrder(x, y) == IF NumLess(x, y) THEN "Less" ELSE "Greater"

SameCore(a, b) ==
  a.major = b.major /\ a.minor = b.minor /\ a.patch = b.patch

\* C8: when the (major, minor, patch) triples differ, compare returns
\* Some of their lexicographic ordering as unsigned integers, whatever the
\* prerelease and buildmetadata are.
C8_CoreTripleDecides ==
  ord # NotCalled /\ ~SameCore(VerA, VerB) =>
    ord[1] = <<IF VerA.major # VerB.major
                 THEN NumOrder(VerA.major, VerB.major)
               ELSE IF VerA.minor # VerB.minor
                 THEN NumOrder(VerA.minor, VerB.minor)
               ELSE NumOrder(VerA.patch, VerB.patch)>>

\* compare was called on 1.9.1 and 1.10.1 with different prerelease and
\* build metadata, and answered Less.
C8_Witness ==
  /\ ord = <<<<"Less">>>>
  /\ VerA.minor = <<9>> /\ VerB.minor = <<1, 0>>
  /\ VerA.prerelease # VerB.prerelease
  /\ VerA.buildmetadata # VerB.buildmetadata

\* C9: compare always answers, and answers None exactly when major, minor
\* and patch are equal and the prerelease or the buildmetadata differ.
C9_NoneIffSectionsDiffer ==
  /\ BothParsed => ENABLED Compare \/ ord # NotCalled
  /\ ord # NotCalled =>
       /\ ord[1] \in {<<>>, <<"Less">>, <<"Equal">>, <<"Greater">>}
       /\ (ord[1] = <<>>)
            <=> /\ SameCore(VerA, VerB)
                /\ \/ VerA.prerelease # VerB.prerelease
                   \/ VerA.buildmetadata # VerB.buildmetadata

\* compare answered None for two versions that differ in build metadata
\* alone.
C9_Witness ==
  /\ ord = <<<<>>>>
  /\ SameCore(VerA, VerB)
  /\ VerA.prerelease = VerB.prerelease
  /\ VerA.buildmetadata # VerB.buildmetadata

IsNumericIdent(t) == \A c \in Range(t) : IsAsciiDigit(c)

\* Semver precedence of two prerelease identifiers.
IdentPrecedence(x, y) ==
  IF IsNumericIdent(x) /\ IsNumericIdent(y)
    THEN CmpU128([k \in DOMAIN x |-> DigitVal(x[k])],
                 [k \in DOMAIN y |-> DigitVal(y[k])])
  ELSE IF IsNumericIdent(x) THEN "Less"
  ELSE IF IsNumericIdent(y) THEN "Greater"
  ELSE StrCmp(x, y)

\* Semver precedence of two prerelease fields: a version without one is
\* the greater; otherwise the first identifier that differs decides, and a
\* proper prefix is the lesser.
PrereleasePrecedence(x, y) ==
  IF x = <<>> /\ y = <<>> THEN "Equal"
  ELSE IF x = <<>> THEN "Greater"
  ELSE IF y = <<>> THEN "Less"
  ELSE LET xs   == SplitDots(x[1])
           ys   == SplitDots(y[1])
           n    == IF Len(xs) < Len(ys) THEN Len(xs) ELSE Len(ys)
           diff == {k \in 1..n : xs[k] # ys[k]}
       IN  IF diff # {} THEN IdentPrecedence(xs[Min(diff)], ys[Min(diff)])
           ELSE IF Len(xs) < Len(ys) THEN "Less"
           ELSE IF Len(xs) > Len(ys) THEN "Greater"
           ELSE "Equal"

\* C10 as stated: with equal (major, minor, patch), compare orders two
\* versions by the semver precedence of their prerelease fields.
C10_PrereleasePrecedence ==
  ord # NotCalled /\ SameCore(VerA, VerB)
    /\ VerA.prerelease # VerB.prerelease
    => ord[1] = <<PrereleasePrecedence(VerA.prerelease, VerB.prerelease)>>

\* C10 as amended: with equal (major, minor, patch), compare gives no
\* order by prerelease: it answers None whenever the prerelease fields
\* differ, and with equal prerelease fields it answers Equal or None,
\* never Less or Greater.
C10_PrereleaseNotOrdered ==
  ord # NotCalled /\ SameCore(VerA, VerB) =>
    /\ VerA.prerelease # VerB.prerelease => ord[1] = <<>>
    /\ ord[1] \notin {<<"Less">>, <<"Greater">>}

\* compare answered None for 1.1.1 and 1.1.1-a with the same build
\* metadata, and for no other reason than the prerelease.
C10_Witness ==
  /\ ord = <<<<>>>>
  /\ SameCore(VerA, VerB)
  /\ VerA.prerelease = <<>> /\ VerB.prerelease = <<<<"a">>>>
  /\ VerA.buildmetadata = VerB.buildmetadata

\* C11: is_comparable_with is symmetric, a.is_comparable_with(b) =
\* b.is_comparable_with(a) for all Versions a and b, and it is true exactly
\* when compare returns a defined ordering.
C11_ComparableSymmetric ==
  comparable[1] # NotCalled /\ comparable[2] # NotCalled =>
    /\ comparable[1][1] = comparable[2][1]
    /\ comparable[1][1] <=> ord[1] # <<>>
    /\ comparable[2][1] <=> rev[1] # <<>>

\* Two versions of one core and one prerelease that differ in build metadata
\* only, found not comparable in both directions.
C11_Witness ==
  /\ comparable = <<<<FALSE>>, <<FALSE>>>>
  /\ SameCore(VerA, VerB)
  /\ VerA.prerelease = VerB.prerelease
  /\ VerA.buildmetadata # VerB.buildmetadata

\* The reverse of an Option<Ordering>.
Reverse(o) ==
  IF o = <<"Less">> THEN <<"Greater">>
  ELSE IF o = <<"Greater">> THEN <<"Less">>
  ELSE o

\* C16: a == b exactly when compare(a, b) is Some(Equal), and compare(b, a)
\* is the reverse of compare(a, b): Less <-> Greater, Equal <-> Equal,
\* None <-> None.
C16_EqualityAgreesAndAntisymmetric ==
  ord # NotCalled /\ same # NotCalled /\ rev # NotCalled =>
    /\ same[1] <=> ord[1] = <<"Equal">>
    /\ rev[1] = Reverse(ord[1])

\* Two versions of one core whose prereleases differ: not equal, and None
\* in both directions.
C16_Witness ==
  /\ ord = <<<<>>>> /\ rev = <<<<>>>> /\ same = <<FALSE>>
  /\ SameCore(VerA, VerB)
  /\ VerA.prerelease # <<>> /\ VerB.prerelease # <<>>
  /\ VerA.prerelease # VerB.prerelease

\* ---- the program's output

\* The lines of a text, each ended by a line feed.
RECURSIVE Lines(_)
Lines(t) ==
  IF t = <<>> THEN <<>>
  ELSE LET d == FirstOf(t, 1, LF)
       IN  IF d > Len(t)
             THEN <<t>>
             ELSE <<SubText(t, 1, d - 1)>> \o Lines(SubText(t, d + 1, Len(t)))

\* print has run.
Printed == opts # NotCalled /\ Succeeded(1) /\ exit = <<0>>

Printing == parsed[1][1].val[1]

\* P: opts.prefix, followed by "v" iff remove_v_prefix is false.
P == opts[1].prefix \o (IF opts[1].remove_v_prefix THEN <<>> ELSE <<"v">>)

Major == P \o Digits(Printing.major)

MajorMinor == Major \o <<".">> \o Digits(Printing.minor)

MajorMinorPatch == MajorMinor \o <<".">> \o Digits(Printing.patch)

\* The input without its leading 'v'.
VStripped ==
  IF version[1] # <<>> /\ version[1][1] = "v"
    THEN SubText(version[1], 2, Len(version[1]))
    ELSE version[1]

\* The input without its leading 'v' and its '+' section.
VAndBuildStripped == TextOf([shape[1][1] EXCEPT !.lead = <<>>, !.build = <<>>])

LastLine == Lines(out)[Len(Lines(out))]

\* C12: for every input the grammar accepts, rendering the Version that
\* parse returned for it with prefix "" and remove_v_prefix = true yields
\* the text major.minor.patch[-prerelease][+buildmetadata], identical to
\* the input with its leading 'v' (if any) removed.
C12_RoundTrip ==
  /\ Printed
  /\ GrammarValid(shape[1][1])
  /\ opts[1].prefix = <<>> /\ opts[1].remove_v_prefix /\ ~opts[1].single_line
  => LastLine = VStripped

\* C12, as the code has it: for every Version that parse returns, rendering
\* it with prefix "", remove_v_prefix = true and single_line = false writes
\* as its last line major.minor.patch[-prerelease], identical to the input
\* with its leading 'v' and its '+buildmetadata' section removed.
C12_RoundTripWithoutBuild ==
  /\ Printed
  /\ opts[1].prefix = <<>> /\ opts[1].remove_v_prefix /\ ~opts[1].single_line
  => /\ shape[1][1].kind = "assembled"
     /\ LastLine = VAndBuildStripped

\* v10.0.9-a.0+x.1 rendered as the single line 10.0.9-a.0.
C12_Witness ==
  /\ Printed
  /\ opts[1].prefix = <<>> /\ opts[1].remove_v_prefix /\ ~opts[1].single_line
  /\ version[1] = <<"v", "1", "0", ".", "0", ".", "9", "-", "a", ".", "0",
                    "+", "x", ".", "1">>
  /\ out = <<"1", "0", ".", "0", ".", "9", "-", "a", ".", "0", LF>>

\* C13: for a Version without prerelease, print writes, when single_line is
\* false, exactly the three lines P+major, P+major.minor and
\* P+major.minor.patch in that order, and when single_line is true exactly
\* one line holding those three joined by commas.
C13_NoPrereleaseLines ==
  Printed /\ Printing.prerelease = <<>> =>
    /\ out # <<>> /\ out[Len(out)] = LF
    /\ Lines(out) =
         IF opts[1].single_line
           THEN <<Major \o <<",">> \o MajorMinor \o <<",">> \o MajorMinorPatch>>
           ELSE <<Major, MajorMinor, MajorMinorPatch>>

\* "2.0.0" with single_line = true and remove_v_prefix = true gives the one
\* line "2,2.0,2.0.0".
C13_Witness ==
  /\ Printed
  /\ version[1] = <<"2", ".", "0", ".", "0">>
  /\ opts[1].prefix = <<>> /\ opts[1].remove_v_prefix /\ opts[1].single_line
  /\ out = <<"2", ",", "2", ".", "0", ",", "2", ".", "0", ".", "0", LF>>

\* C14: for a Version with a prerelease, print writes exactly one line
\* P+major.minor.patch-prerelease whether single_line is true or false; and
\* no output of any Version holds the '+' of a build metadata section.
C14_PrereleaseOneLine ==
  Printed =>
    /\ Printing.prerelease # <<>> =>
         /\ out[Len(out)] = LF
         /\ Lines(out) =
              <<MajorMinorPatch \o <<"-">> \o Printing.prerelease[1]>>
    /\ "+" \notin Range(out)

\* "v1.2.3-alpha+meta" with the default options gives the one line
\* "v1.2.3-alpha".
C14_Witness ==
  /\ Printed
  /\ Printing.prerelease = <<<<"a", "l", "p", "h", "a">>>>
  /\ Printing.buildmetadata = <<<<"m", "e", "t", "a">>>>
  /\ opts[1].prefix = <<>> /\ ~opts[1].remove_v_prefix /\ ~opts[1].single_line
  /\ out = <<"v", "1", ".", "2", ".", "3", "-", "a", "l", "p", "h", "a", LF>>

\* C15: in a run of the program the version is parsed before anything is
\* written: nothing is written before parse has returned; if parse fails,
\* nothing is ever written and the process ends with a non-zero status; if
\* parse succeeds, the process ends, with status zero, only with the lines
\* of the display configuration written.
C15_ParsedBeforePrinted ==
  opts # NotCalled =>
    /\ out # <<>> => Succeeded(1)
    /\ Failed(1) => out = <<>> /\ exit # NotCalled /\ exit[1] # 0
    /\ Succeeded(1) /\ exit # NotCalled =>
         /\ exit = <<0>>
         /\ out = print(Printing, FromCmd(opts[1]))
         /\ Len(Lines(out)) \in {1, 3}

\* A run on an input that is no version, ended with status 1 and nothing
\* written.
C15_Witness ==
  /\ opts # NotCalled
  /\ Failed(1)
  /\ out = <<>>
  /\ exit = <<1>>

====
